---- MODULE Spec2Model ----
(***************************************************************************)
(* Model of the vulkanrenderer frame lifecycle and GPU resource ownership: *)
(* VulkanRenderer::new, the RedrawRequested handler of main, the graphics  *)
(* queue and presentation engine it talks to, and Drop for VulkanRenderer. *)
(***************************************************************************)
EXTENDS Integers, Sequences, FiniteSets, TLC

\* ---------------------------------------------------------------- bounds
\* largest image count the driver returns for the swapchain
MaxImages == 4
\* number of frames the event loop is driven for
MaxFrames == 5
\* longest list of queue families a physical device reports
MaxFamilies == 3

\* ------------------------------------------------------ program constants
\* .min_image_count(3): the driver creates at least this many images
RequestedImages == 3

VARIABLES
    pc,                 \* position of the host thread
    live,               \* handles of GPU objects that exist
    calls,              \* create / destroy calls issued so far, in order
    amount_of_images,   \* Swapchain.amount_of_images
    current_image,      \* Swapchain.current_image
    image_views,        \* Swapchain.image_views
    framebuffers,       \* Swapchain.framebuffers
    image_available,    \* Swapchain.image_available
    rendering_finished, \* Swapchain.rendering_finished
    may_begin_drawing,  \* Swapchain.may_begin_drawing
    commandbuffers,     \* VulkanRenderer.commandbuffers
    recorded,           \* recorded[i]: framebuffer command buffer i draws to
    commands,           \* commands[i]: what was recorded into command buffer i
    commandbuffer_pool, \* the pool the command buffers were allocated from
    image_index,        \* local image_index of the RedrawRequested handler
    frames,             \* number of frames that ran to the cursor advance
    frameSlot,          \* current_image at the start of the running frame
    frameOps,           \* host calls of the running (or last) frame, in order
    signaled,           \* fences and semaphores that are signaled
    pendingSignal,      \* semaphores the presentation engine will signal
    imageState,         \* per swapchain image: free/acquired/queued/displayed
    queue,              \* graphics queue: submitted batches, FIFO
    running,            \* the head batch of the queue is executing
    presentQueue,       \* presentation requests, processed in order
    completed,          \* frames whose submission finished on the GPU
    handed,             \* frames whose image was handed over for display
    surface_capabilities,   \* what get_surface_capabilities reports
    surface_formats,        \* what get_formats reports
    queuefamilyproperties,  \* what the physical device reports
    graphics_q_index,   \* QueueFamilies.graphics_q_index
    transfer_q_index,   \* QueueFamilies.transfer_q_index
    queue_infos,        \* families a queue was requested for at create_device
    fetched_queues,     \* families get_device_queue was called for
    attachments,        \* attachments[i]: image view of framebuffers[i]
    failure             \* the failure that ended initialization or a frame

vars == <<pc, live, calls, amount_of_images, current_image, image_views,
          framebuffers, image_available, rendering_finished,
          may_begin_drawing, commandbuffers, recorded, commands,
          commandbuffer_pool, image_index, frames,
          frameSlot, frameOps, signaled, pendingSignal, imageState, queue,
          running, presentQueue, completed, handed, surface_capabilities,
          surface_formats, queuefamilyproperties, graphics_q_index,
          transfer_q_index, queue_infos, fetched_queues, attachments, failure>>

swapchainVars == <<amount_of_images, image_views, framebuffers,
                   image_available, rendering_finished, may_begin_drawing,
                   attachments>>
envVars == <<surface_capabilities, surface_formats, queuefamilyproperties>>
deviceVars == <<graphics_q_index, transfer_q_index, queue_infos,
                fetched_queues>>
gpuVars == <<signaled, pendingSignal, imageState, queue, running,
             presentQueue, completed, handed>>
frameVars == <<image_index, frames, frameSlot, frameOps>>
recordVars == <<recorded, commands, commandbuffer_pool>>

\* ---------------------------------------------------------------- handles
Handle(kind, i) == <<kind, i>>
NullHandle == Handle("null", 0)
Kind(h) == h[1]

Instance == Handle("instance", 0)
DebugMessenger == Handle("debug_messenger", 0)
SurfaceKHR == Handle("surface", 0)
LogicalDevice == Handle("device", 0)
SwapchainKHR == Handle("swapchain", 0)
RenderPass == Handle("render_pass", 0)
GraphicsPipeline == Handle("pipeline", 0)
PipelineLayout == Handle("pipeline_layout", 0)
Allocator == Handle("allocator", 0)
VertexShaderModule == Handle("shader_module", 0)
FragmentShaderModule == Handle("shader_module", 1)
Buffer == Handle("buffer", 0)
Allocation == Handle("allocation", 0)
CommandPoolGraphics == Handle("command_pool", 0)
CommandPoolTransfer == Handle("command_pool", 1)

\* a Vec of k handles of one kind, element i (0-based) at position i + 1
HandleVec(kind, k) == [i \in 1..k |-> Handle(kind, i - 1)]
\* v[i] with the 0-based index of the source
At(v, i) == v[i + 1]
Range(s) == {s[i] : i \in 1..Len(s)}

\* image counts the driver may return for .min_image_count(3)
ImageCounts == RequestedImages..MaxImages

\* ------------------------------------------------------------ call records
CreateCall(h) == [op |-> "create", h |-> h]
DestroyCall(h) == [op |-> "destroy", h |-> h]
WaitIdleCall == [op |-> "wait_idle", h |-> LogicalDevice]
CreateCalls(v) == [i \in 1..Len(v) |-> CreateCall(v[i])]
DestroyCalls(v) == [i \in 1..Len(v) |-> DestroyCall(v[i])]

\* ------------------------------------------------ what the platform reports
\* Option::None of a queue family index
None == 0 - 1

QueueFamily(count, graphics, transfer) ==
    [queue_count |-> count, graphics |-> graphics, transfer |-> transfer]
QueueFamilyProperties ==
    [queue_count : {0, 1}, graphics : BOOLEAN, transfer : BOOLEAN]
\* every list of queue families up to MaxFamilies entries
FamilyLists == UNION {[1..n -> QueueFamilyProperties] : n \in 1..MaxFamilies}

CombinedFamily == QueueFamily(1, TRUE, TRUE)
TransferFamily == QueueFamily(1, FALSE, TRUE)
GraphicsOnlyFamily == QueueFamily(1, TRUE, FALSE)
\* the layouts the renderer is run on: a combined family with a dedicated
\* transfer family, no graphics family, no transfer family
Layouts == {<<CombinedFamily, TransferFamily>>, <<TransferFamily>>,
            <<GraphicsOnlyFamily>>}

\* the format Swapchain::init looks for
RequiredFormat == "B8G8R8A8_UNORM"
FormatLists == {<<"R8G8B8A8_SRGB", "B8G8R8A8_UNORM">>, <<"R8G8B8A8_SRGB">>}

SurfaceCapabilities(min, max) ==
    [min_image_count |-> min, max_image_count |-> max]
CapabilityInputs == {SurfaceCapabilities(2, 8)}

NoFailure == [kind |-> "none", call |-> "none"]
\* a native call returned Err and `?` handed it to the caller
Err(call) == [kind |-> "err", call |-> call]
\* unwrap() / expect() on a None or an Err
Panic(call) == [kind |-> "panic", call |-> call]
\* a native call with undefined behaviour brought the process down
Crash(call) == [kind |-> "crash", call |-> call]

\* the state before VulkanRenderer::new, for given reports of the platform
InitWith(families, formats, capabilities) ==
    /\ pc = "create_instance"
    /\ live = {}
    /\ calls = <<>>
    /\ amount_of_images = 0
    /\ current_image = 0
    /\ image_views = <<>>
    /\ framebuffers = <<>>
    /\ image_available = <<>>
    /\ rendering_finished = <<>>
    /\ may_begin_drawing = <<>>
    /\ commandbuffers = <<>>
    /\ recorded = <<>>
    /\ commands = <<>>
    /\ commandbuffer_pool = NullHandle
    /\ image_index = 0
    /\ frames = 0
    /\ frameSlot = 0
    /\ frameOps = <<>>
    /\ signaled = {}
    /\ pendingSignal = {}
    /\ imageState = <<>>
    /\ queue = <<>>
    /\ running = FALSE
    /\ presentQueue = <<>>
    /\ completed = {}
    /\ handed = {}
    /\ queuefamilyproperties = families
    /\ surface_formats = formats
    /\ surface_capabilities = capabilities
    /\ graphics_q_index = None
    /\ transfer_q_index = None
    /\ queue_infos = <<>>
    /\ fetched_queues = <<>>
    /\ attachments = <<>>
    /\ failure = NoFailure

Init ==
    \E families \in Layouts : \E formats \in FormatLists :
        \E capabilities \in CapabilityInputs :
            InitWith(families, formats, capabilities)

\* ------------------------------------------------------ VulkanRenderer::new
\* the objects alive after the calls cs, starting from the objects of l
LiveAfter(l, cs) ==
    (l \cup {cs[i].h : i \in {j \in 1..Len(cs) : cs[j].op = "create"}})
       \ {cs[i].h : i \in {j \in 1..Len(cs) : cs[j].op \in {"destroy", "drop"}}}

\* locals of new that have a destructor, in the order they are dropped
\* (the reverse of their declaration): surfaces, debug
LocalsWithDrop == <<SurfaceKHR, DebugMessenger>>

\* does leaving new with failure f run the destructors of the locals: yes for
\* an Err handed on by `?`; for a panic, yes in a build that unwinds and no in
\* a build that aborts
RunsDestructors(f) == IF f.kind = "panic" THEN BOOLEAN ELSE {TRUE}

\* a step of new fails with f after it issued the calls cs; inner is what the
\* destructors of the locals of the failing function do
InitFailure(f, cs, inner) ==
    \E unwinds \in RunsDestructors(f) :
        LET l == LiveAfter(live, cs)
            dropped == SelectSeq(LocalsWithDrop, LAMBDA h : h \in l)
            ds == IF unwinds THEN inner \o DestroyCalls(dropped) ELSE <<>>
        IN  /\ pc' = "init_failed"
            /\ failure' = f
            /\ calls' = calls \o cs \o ds
            /\ live' = LiveAfter(l, ds)

\* a step of new that creates the one native object h by the call named
\* call, or hands on its Err
InitStep(from, to, h, call) ==
    /\ pc = from
    /\ \/ /\ pc' = to
          /\ live' = live \cup {h}
          /\ calls' = Append(calls, CreateCall(h))
          /\ failure' = failure
       \/ InitFailure(Err(call), <<>>, <<>>)
    /\ UNCHANGED <<envVars, deviceVars, current_image, swapchainVars,
                   commandbuffers, recordVars, frameVars, gpuVars>>

CreateInstance ==
    InitStep("create_instance", "debug_new", Instance, "create_instance")

DebugNew == InitStep("debug_new", "surface_new", DebugMessenger, "Debug::new")

SurfaceNew ==
    InitStep("surface_new", "device_init", SurfaceKHR, "Surface::new")

\* a scan that takes a graphics family without looking at its queue count
TakesGraphicsIgnoringCount(q, found) == q.graphics
\* a scan that keeps the first graphics family it finds
TakesGraphicsIfNone(q, found) ==
    q.queue_count > 0 /\ q.graphics /\ found = None
\* QueueFamilies::init: does family q replace the graphics family found so far
TakesGraphics(q, found) == q.queue_count > 0 /\ q.graphics
\* a scan in which every transfer family replaces the one found before
TakesTransferAlways(q, found) == q.queue_count > 0 /\ q.transfer
\* QueueFamilies::init: does family q replace the transfer family found so far
TakesTransfer(q, found) ==
    q.queue_count > 0 /\ q.transfer /\ (found = None \/ ~q.graphics)

RECURSIVE QueueFamiliesScan(_, _, _, _)
\* the loop of QueueFamilies::init from position i (1-based) of the list on
QueueFamiliesScan(props, i, g, t) ==
    IF i > Len(props)
    THEN [graphics_q_index |-> g, transfer_q_index |-> t]
    ELSE QueueFamiliesScan(props, i + 1,
                           IF TakesGraphics(props[i], g) THEN i - 1 ELSE g,
                           IF TakesTransfer(props[i], t) THEN i - 1 ELSE t)

QueueFamiliesInit(props) == QueueFamiliesScan(props, 1, None, None)

\* a native call made for a queue family that is not among the families a
\* queue was requested for at create_device has undefined behaviour: it may
\* go on or bring the process down
MayCrash(family, requested) == family \notin Range(requested)

\* queue_infos: one DeviceQueueCreateInfo, for the graphics family
QueueInfos(g, t) == <<g>>

\* Device::init
DeviceInit ==
    /\ pc = "device_init"
    /\ LET qf == QueueFamiliesInit(queuefamilyproperties)
           g == qf.graphics_q_index
           t == qf.transfer_q_index
       IN  /\ graphics_q_index' = g
           /\ transfer_q_index' = t
           /\ \/ /\ g = None
                 /\ queue_infos' = <<>>
                 /\ fetched_queues' = <<>>
                 /\ InitFailure(Panic("graphics_q_index.unwrap"), <<>>, <<>>)
              \/ /\ g # None
                 /\ queue_infos' = QueueInfos(g, t)
                 /\ fetched_queues' = <<>>
                 /\ InitFailure(Err("create_device"), <<>>, <<>>)
              \/ /\ g # None
                 /\ t = None
                 /\ queue_infos' = QueueInfos(g, t)
                 /\ fetched_queues' = <<g>>
                 /\ InitFailure(Panic("transfer_q_index.unwrap"),
                                <<CreateCall(LogicalDevice)>>, <<>>)
              \/ /\ g # None
                 /\ t # None
                 /\ queue_infos' = QueueInfos(g, t)
                 /\ fetched_queues' = <<g, t>>
                 /\ live' = live \cup {LogicalDevice}
                 /\ calls' = Append(calls, CreateCall(LogicalDevice))
                 /\ \/ /\ pc' = "swapchain_init"
                       /\ failure' = failure
                    \/ /\ MayCrash(t, QueueInfos(g, t))
                       /\ pc' = "init_crashed"
                       /\ failure' = Crash("get_device_queue(transfer)")
    /\ UNCHANGED <<envVars, current_image, swapchainVars, commandbuffers,
                   recordVars, frameVars, gpuVars>>

\* fences created without the SIGNALED flag
FencesCreatedUnsignaled(fences) == {}

\* fences are created with FenceCreateFlags::SIGNALED
InitialFenceState(fences) == Range(fences)

\* a request for the minimum of the surface
MinImageCountOfSurface(capabilities) == capabilities.min_image_count
\* .min_image_count(3), whatever the surface reports
MinImageCount(capabilities) == RequestedImages

\* the image counts create_swapchain may answer a request for at least
\* requested images with
DriverImageCounts(requested, capabilities) ==
    {k \in requested..MaxImages :
        /\ k >= capabilities.min_image_count
        /\ k <= capabilities.max_image_count}

\* a lookup that takes the first format of the list, whatever it is
FirstFormat(formats) == {1}
\* .find(|surface| surface.format == vk::Format::B8G8R8A8_UNORM)
FindFormat(formats) ==
    {i \in 1..Len(formats) :
        /\ formats[i] = RequiredFormat
        /\ \A j \in 1..(i - 1) : formats[j] # RequiredFormat}

\* the create calls of Swapchain::init for k images in program order: the
\* swapchain, the image views, then per image the two semaphores and the fence
SwapchainCreateCalls(k) ==
    <<CreateCall(SwapchainKHR)>>
        \o CreateCalls(HandleVec("image_view", k))
        \o [i \in 1..(3 * k) |->
              CreateCall(Handle(IF i % 3 = 1 THEN "semaphore_available"
                                ELSE IF i % 3 = 2 THEN "semaphore_finished"
                                ELSE "fence",
                                (i - 1) \div 3))]

\* the native call that creates an object of this kind
CreatorOf(kind) ==
    IF kind = "image_view" THEN "create_image_view"
    ELSE IF kind = "fence" THEN "create_fence"
    ELSE "create_semaphore"

\* Swapchain::init
SwapchainInit ==
    /\ pc = "swapchain_init"
    /\ \/ /\ FindFormat(surface_formats) = {}
          /\ InitFailure(Panic("find(format).unwrap"), <<>>, <<>>)
          /\ UNCHANGED <<current_image, swapchainVars, imageState, signaled>>
       \/ /\ FindFormat(surface_formats) # {}
          /\ InitFailure(Err("create_swapchain"), <<>>, <<>>)
          /\ UNCHANGED <<current_image, swapchainVars, imageState, signaled>>
       \/ /\ FindFormat(surface_formats) # {}
          /\ \E k \in DriverImageCounts(MinImageCount(surface_capabilities),
                                        surface_capabilities) :
              \E n \in 1..(Len(SwapchainCreateCalls(k)) - 1) :
                  LET cs == SwapchainCreateCalls(k)
                  IN  InitFailure(Err(CreatorOf(Kind(cs[n + 1].h))),
                                  SubSeq(cs, 1, n), <<>>)
          /\ UNCHANGED <<current_image, swapchainVars, imageState, signaled>>
       \/ /\ FindFormat(surface_formats) # {}
          /\ \E k \in DriverImageCounts(MinImageCount(surface_capabilities),
                                        surface_capabilities) :
              LET views == HandleVec("image_view", k)
                  avail == HandleVec("semaphore_available", k)
                  fin == HandleVec("semaphore_finished", k)
                  fences == HandleVec("fence", k)
              IN  /\ amount_of_images' = k
                  /\ image_views' = views
                  /\ framebuffers' = <<>>
                  /\ attachments' = <<>>
                  /\ image_available' = avail
                  /\ rendering_finished' = fin
                  /\ may_begin_drawing' = fences
                  /\ current_image' = 0
                  /\ imageState' = [i \in 1..k |-> "free"]
                  /\ signaled' = signaled \cup InitialFenceState(fences)
                  /\ live' = LiveAfter(live, SwapchainCreateCalls(k))
                  /\ calls' = calls \o SwapchainCreateCalls(k)
          /\ pc' = "create_renderpass"
          /\ failure' = failure
    /\ UNCHANGED <<envVars, deviceVars, commandbuffers, recordVars, frameVars,
                   pendingSignal, queue, running, presentQueue, completed,
                   handed>>

CreateRenderpass ==
    InitStep("create_renderpass", "create_framebuffer", RenderPass,
             "create_render_pass")

\* framebuffers attached to the image views in reverse order
AttachmentsReversed(views) ==
    [i \in 1..Len(views) |-> views[Len(views) + 1 - i]]
\* let iview = [*iv]: the one attachment of the framebuffer made for view iv
FramebufferAttachments(views) == views

\* a loop over the image views that stops one short
FramebuffersButLast(views) ==
    [i \in 1..(Len(views) - 1) |-> Handle("framebuffer", i - 1)]

\* one framebuffer per image view, pushed in the order of image_views
NewFramebuffers(views) == [i \in 1..Len(views) |-> Handle("framebuffer", i - 1)]

\* Swapchain::create_framebuffer: the loop runs to its end, or
\* create_framebuffer returns an Err after n framebuffers were pushed
CreateFramebuffer ==
    /\ pc = "create_framebuffer"
    /\ LET fbs == NewFramebuffers(image_views)
           atts == FramebufferAttachments(image_views)
       IN  \/ /\ framebuffers' = framebuffers \o fbs
              /\ attachments' = attachments \o atts
              /\ live' = live \cup Range(fbs)
              /\ calls' = calls \o CreateCalls(fbs)
              /\ pc' = "pipeline_new"
              /\ failure' = failure
           \/ \E n \in 0..(Len(fbs) - 1) :
                /\ framebuffers' = framebuffers \o SubSeq(fbs, 1, n)
                /\ attachments' = attachments \o SubSeq(atts, 1, n)
                /\ InitFailure(Err("create_framebuffer"),
                               CreateCalls(SubSeq(fbs, 1, n)), <<>>)
    /\ UNCHANGED <<envVars, deviceVars, current_image, amount_of_images,
                   image_views, image_available, rendering_finished,
                   may_begin_drawing, commandbuffers, recordVars, frameVars,
                   gpuVars>>

\* a native call of Pipeline::new: what it does to which handle, and how its
\* failure leaves the function ("err": by `?`, "panic": by unwrap / expect,
\* "never": the call returns nothing)
PipelineCall(call, op, h, onFailure) ==
    [call |-> call, op |-> op, h |-> h, onFailure |-> onFailure]

\* a Pipeline::new that never destroys its test buffer
PipelineCallsKeepingBuffer ==
    <<PipelineCall("create_shader_module(vertex)", "create",
                   VertexShaderModule, "err"),
      PipelineCall("create_shader_module(fragment)", "create",
                   FragmentShaderModule, "err"),
      PipelineCall("Allocator::new", "create", Allocator, "panic"),
      PipelineCall("create_buffer", "create", Buffer, "err"),
      PipelineCall("allocator.allocate", "create", Allocation, "panic"),
      PipelineCall("bind_buffer_memory", "bind", Buffer, "panic"),
      PipelineCall("create_pipeline_layout", "create", PipelineLayout, "err"),
      PipelineCall("create_graphics_pipelines", "create", GraphicsPipeline,
                   "panic"),
      PipelineCall("allocator.free", "destroy", Allocation, "panic"),
      PipelineCall("destroy_shader_module(fragment)", "destroy",
                   FragmentShaderModule, "never"),
      PipelineCall("destroy_shader_module(vertex)", "destroy",
                   VertexShaderModule, "never")>>

\* the native calls of Pipeline::new in program order
PipelineCalls ==
    <<PipelineCall("create_shader_module(vertex)", "create",
                   VertexShaderModule, "err"),
      PipelineCall("create_shader_module(fragment)", "create",
                   FragmentShaderModule, "err"),
      PipelineCall("Allocator::new", "create", Allocator, "panic"),
      PipelineCall("create_buffer", "create", Buffer, "err"),
      PipelineCall("allocator.allocate", "create", Allocation, "panic"),
      PipelineCall("bind_buffer_memory", "bind", Buffer, "panic"),
      PipelineCall("create_pipeline_layout", "create", PipelineLayout, "err"),
      PipelineCall("create_graphics_pipelines", "create", GraphicsPipeline,
                   "panic"),
      PipelineCall("allocator.free", "destroy", Allocation, "panic"),
      PipelineCall("destroy_buffer", "destroy", Buffer, "never"),
      PipelineCall("destroy_shader_module(fragment)", "destroy",
                   FragmentShaderModule, "never"),
      PipelineCall("destroy_shader_module(vertex)", "destroy",
                   VertexShaderModule, "never")>>

\* the calls of Pipeline::new that return a Result
FalliblePipelineCalls ==
    {i \in 1..Len(PipelineCalls) : PipelineCalls[i].onFailure # "never"}

\* the call records of the first n calls of Pipeline::new
PipelinePrefix(n) ==
    [i \in 1..n |-> [op |-> PipelineCalls[i].op, h |-> PipelineCalls[i].h]]

\* the local allocator goes out of scope when Pipeline::new is left early:
\* its destructor releases the memory it handed out
AllocatorDropped(cs) ==
    IF CreateCall(Allocator) \in Range(cs)
    THEN (IF Allocation \in LiveAfter({}, cs)
          THEN <<[op |-> "drop", h |-> Allocation]>> ELSE <<>>)
         \o <<[op |-> "drop", h |-> Allocator]>>
    ELSE <<>>

\* Pipeline::new; Pipeline { pipeline, layout, allocator } stays alive after it
PipelineNew ==
    /\ pc = "pipeline_new"
    /\ \/ \E i \in FalliblePipelineCalls :
            LET cs == PipelinePrefix(i - 1)
                f == IF PipelineCalls[i].onFailure = "err"
                     THEN Err(PipelineCalls[i].call)
                     ELSE Panic(PipelineCalls[i].call)
            IN  InitFailure(f, cs, AllocatorDropped(cs))
       \/ /\ live' = LiveAfter(live, PipelinePrefix(Len(PipelineCalls)))
          /\ calls' = calls \o PipelinePrefix(Len(PipelineCalls))
          /\ pc' = "command_pools_init"
          /\ failure' = failure
    /\ UNCHANGED <<envVars, deviceVars, current_image, swapchainVars,
                   commandbuffers, recordVars, frameVars, gpuVars>>

\* the local pipeline of new goes out of scope when a later step fails: the
\* destructor of its allocator field runs
PipelineDropped == <<[op |-> "drop", h |-> Allocator]>>

\* the queue family each command pool is created for
PoolFamily(pool) ==
    IF pool = CommandPoolGraphics THEN graphics_q_index ELSE transfer_q_index

\* CommandPools::init
CommandPoolsInit ==
    /\ pc = "command_pools_init"
    /\ \/ /\ live' = live \cup {CommandPoolGraphics, CommandPoolTransfer}
          /\ calls' = calls \o <<CreateCall(CommandPoolGraphics),
                                 CreateCall(CommandPoolTransfer)>>
          /\ pc' = "create_commandbuffers"
          /\ failure' = failure
       \/ InitFailure(Err("create_command_pool(graphics)"), <<>>,
                      PipelineDropped)
       \/ InitFailure(Err("create_command_pool(transfer)"),
                      <<CreateCall(CommandPoolGraphics)>>, PipelineDropped)
       \/ /\ MayCrash(PoolFamily(CommandPoolTransfer), queue_infos)
          /\ live' = live \cup {CommandPoolGraphics}
          /\ calls' = Append(calls, CreateCall(CommandPoolGraphics))
          /\ pc' = "init_crashed"
          /\ failure' = Crash("create_command_pool(transfer)")
    /\ UNCHANGED <<envVars, deviceVars, current_image, swapchainVars,
                   commandbuffers, recordVars, frameVars, gpuVars>>

\* .command_buffer_count(amount as u32)
CommandBufferCount(amount) == amount

\* create_commandbuffers(.., swapchain.framebuffers.len()): the buffers come
\* from pools.commandpool_graphics
CreateCommandbuffers ==
    /\ pc = "create_commandbuffers"
    /\ \/ LET cbs == HandleVec("command_buffer",
                               CommandBufferCount(Len(framebuffers)))
          IN  /\ commandbuffers' = cbs
              /\ commandbuffer_pool' = CommandPoolGraphics
              /\ live' = live \cup Range(cbs)
              /\ calls' = calls \o CreateCalls(cbs)
              /\ pc' = "fill_commandbuffers"
              /\ failure' = failure
       \/ /\ InitFailure(Err("allocate_command_buffers"), <<>>,
                         PipelineDropped)
          /\ UNCHANGED <<commandbuffers, commandbuffer_pool>>
    /\ UNCHANGED <<envVars, deviceVars, current_image, swapchainVars,
                   recorded, commands, frameVars, gpuVars>>

RecordCall(cb) == [op |-> "record", h |-> cb]

\* a command in a command buffer
Cmd(cmd, h, vertex_count, instance_count) ==
    [cmd |-> cmd, h |-> h, vertex_count |-> vertex_count,
     instance_count |-> instance_count]

\* a recording that leaves out the draw
RecordedWithoutDraw(fb) ==
    <<Cmd("begin_command_buffer", NullHandle, 0, 0),
      Cmd("cmd_begin_render_pass", fb, 0, 0),
      Cmd("cmd_bind_pipeline", GraphicsPipeline, 0, 0),
      Cmd("cmd_end_render_pass", NullHandle, 0, 0),
      Cmd("end_command_buffer", NullHandle, 0, 0)>>
\* what one pass of the loop of fill_commandbuffers puts into a command
\* buffer whose render pass begins on framebuffer fb
RecordedCommands(fb) ==
    <<Cmd("begin_command_buffer", NullHandle, 0, 0),
      Cmd("cmd_begin_render_pass", fb, 0, 0),
      Cmd("cmd_bind_pipeline", GraphicsPipeline, 0, 0),
      Cmd("cmd_draw", NullHandle, 1, 1),
      Cmd("cmd_end_render_pass", NullHandle, 0, 0),
      Cmd("end_command_buffer", NullHandle, 0, 0)>>

\* the state of the first n command buffers when the loop has passed n - 1
\* of them and, if ended is false, end_command_buffer failed on the n-th
RecordedUpTo(n, ended) ==
    [i \in 1..n |->
        LET all == RecordedCommands(framebuffers[i])
        IN  IF i < n \/ ended THEN all ELSE SubSeq(all, 1, Len(all) - 1)]

\* fill_commandbuffers: command buffer i begins the render pass on
\* swapchain.framebuffers[i]; begin_command_buffer and end_command_buffer
\* may return an Err
FillCommandbuffers ==
    /\ pc = "fill_commandbuffers"
    /\ \/ LET n == Len(commandbuffers)
          IN  /\ recorded' = [i \in 1..n |-> framebuffers[i]]
              /\ commands' = RecordedUpTo(n, TRUE)
              /\ calls' = calls \o [i \in 1..n |->
                                      RecordCall(commandbuffers[i])]
              /\ live' = live
              /\ pc' = "idle"
              /\ failure' = failure
       \/ \E i \in 1..Len(commandbuffers) :
            \/ /\ recorded' = [j \in 1..(i - 1) |-> framebuffers[j]]
               /\ commands' = RecordedUpTo(i - 1, TRUE)
               /\ InitFailure(Err("begin_command_buffer"),
                              [j \in 1..(i - 1) |->
                                  RecordCall(commandbuffers[j])],
                              PipelineDropped)
            \/ /\ recorded' = [j \in 1..i |-> framebuffers[j]]
               /\ commands' = RecordedUpTo(i, FALSE)
               /\ InitFailure(Err("end_command_buffer"),
                              [j \in 1..i |-> RecordCall(commandbuffers[j])],
                              PipelineDropped)
    /\ UNCHANGED <<envVars, deviceVars, current_image, swapchainVars,
                   commandbuffers, commandbuffer_pool, frameVars, gpuVars>>

\* ------------------------------------------- main: RedrawRequested handler
NoImage == 0 - 1

HostOp(op, wait, signal, fence, cb, image) ==
    [op |-> op, wait |-> wait, signal |-> signal, fence |-> fence,
     cb |-> cb, image |-> image]
AcquireOp(sem, image) ==
    HostOp("acquire", NullHandle, sem, NullHandle, NullHandle, image)
WaitOp(fence) ==
    HostOp("wait_for_fences", NullHandle, NullHandle, fence, NullHandle, NoImage)
ResetOp(fence) ==
    HostOp("reset_fences", NullHandle, NullHandle, fence, NullHandle, NoImage)
SubmitOp(wait, signal, fence, cb) ==
    HostOp("queue_submit", wait, signal, fence, cb, NoImage)
PresentOp(wait, image) ==
    HostOp("queue_present", wait, NullHandle, NullHandle, NullHandle, image)
AdvanceOp ==
    HostOp("advance", NullHandle, NullHandle, NullHandle, NullHandle, NoImage)

\* the positions of the handler, in program order
AfterStart == "acquire"
AfterAcquire == "wait_fence"
\* the handler without its reset_fences call
AfterWaitSkippingReset == "submit"
AfterWait == "reset_fence"
AfterReset == "submit"
AfterSubmit == "present"
AfterPresent == "advance"
\* a handler that records the command buffers again before it returns
AfterAdvanceRecordingAgain == "fill_commandbuffers"
AfterAdvance == "idle"

FramePcs == {"acquire", "wait_fence", "reset_fence", "submit", "present",
             "advance"}

\* the synchronization objects the handler picks for slot c
AcquireSemaphore(c) == At(image_available, c)
WaitFence(c) == At(may_begin_drawing, c)
ResetFence(c) == At(may_begin_drawing, c)
SubmitWaitSemaphore(c) == At(image_available, c)
SubmitSignalSemaphore(c) == At(rendering_finished, c)
\* a submit that passes vk::Fence::null()
SubmitWithoutFence(c) == NullHandle
\* a submit that always passes the fence of slot 0
SubmitFenceOfSlotZero(c) == At(may_begin_drawing, 0)
SubmitFence(c) == At(may_begin_drawing, c)
\* a submit that picks the command buffer by the cursor, not the acquired index
CommandBufferOfCursor(a) == At(commandbuffers, current_image)
SubmitCommandBuffer(a) == At(commandbuffers, a)
\* a present that waits on the semaphore of acquire
PresentWaitingOnAvailable(c) == At(image_available, c)
PresentWaitSemaphore(c) == At(rendering_finished, c)
\* a cursor advance without the wrap-around
NextImageNoWrap(c, n) == c + 1
\* (current_image + 1) % amount_of_images as usize
NextImage(c, n) == (c + 1) % n

\* an acquire that hands out any image the application does not hold
ImagesNotHeld ==
    {a \in 0..(Len(imageState) - 1) : At(imageState, a) # "acquired"}
FreeImages == {a \in 0..(Len(imageState) - 1) : At(imageState, a) = "free"}

\* the event loop dispatches Event::RedrawRequested
StartFrame ==
    /\ pc = "idle"
    /\ frames < MaxFrames
    /\ pc' = AfterStart
    /\ frameSlot' = current_image
    /\ frameOps' = <<>>
    /\ UNCHANGED <<envVars, deviceVars, failure, live, calls, current_image, swapchainVars, commandbuffers,
                   recordVars, image_index, frames, gpuVars>>

\* acquire_next_image(swapchain, u64::MAX, image_available[current_image], null)
\* blocks until the presentation engine has an image to hand out
AcquireNextImage ==
    /\ pc = "acquire"
    /\ \E a \in FreeImages :
        /\ image_index' = a
        /\ imageState' = [imageState EXCEPT ![a + 1] = "acquired"]
        /\ frameOps' = Append(frameOps,
                              AcquireOp(AcquireSemaphore(current_image), a))
    /\ pendingSignal' = pendingSignal \cup {AcquireSemaphore(current_image)}
    /\ pc' = AfterAcquire
    /\ UNCHANGED <<envVars, deviceVars, failure, live, calls, current_image, swapchainVars, commandbuffers,
                   recordVars, frames, frameSlot, signaled, queue, running,
                   presentQueue, completed, handed>>

\* a signal of s or a wait on s is still outstanding
SemaphoreInUse(s) ==
    \/ s \in signaled
    \/ s \in pendingSignal
    \/ \E i \in 1..Len(queue) : (i > 1 \/ ~running) /\ queue[i].wait = s

\* acquire_next_image is called with a semaphore that is still in use: the
\* call has undefined behaviour; the driver may serve it as above or bring
\* the process down
AcquireCrashes ==
    /\ pc = "acquire"
    /\ SemaphoreInUse(AcquireSemaphore(current_image))
    /\ pc' = "crashed"
    /\ failure' = Crash("acquire_next_image")
    /\ UNCHANGED <<envVars, deviceVars, live, calls, current_image,
                   swapchainVars, commandbuffers, recordVars, frameVars,
                   gpuVars>>

\* wait_for_fences(&[may_begin_drawing[current_image]], true, u64::MAX)
WaitForFences ==
    /\ pc = "wait_fence"
    /\ WaitFence(current_image) \in signaled
    /\ frameOps' = Append(frameOps, WaitOp(WaitFence(current_image)))
    /\ pc' = AfterWait
    /\ UNCHANGED <<envVars, deviceVars, failure, live, calls, current_image, swapchainVars, commandbuffers,
                   recordVars, image_index, frames, frameSlot, gpuVars>>

\* reset_fences(&[may_begin_drawing[current_image]])
ResetFences ==
    /\ pc = "reset_fence"
    /\ signaled' = signaled \ {ResetFence(current_image)}
    /\ frameOps' = Append(frameOps, ResetOp(ResetFence(current_image)))
    /\ pc' = AfterReset
    /\ UNCHANGED <<envVars, deviceVars, failure, live, calls, current_image, swapchainVars, commandbuffers,
                   recordVars, image_index, frames, frameSlot, pendingSignal,
                   imageState, queue, running, presentQueue, completed, handed>>

Batch(frame, wait, signal, fence, cb) ==
    [frame |-> frame, wait |-> wait, signal |-> signal, fence |-> fence,
     cb |-> cb]

\* queue_submit(graphics_queue, &submit_info, may_begin_drawing[current_image])
QueueSubmit ==
    /\ pc = "submit"
    /\ LET c == current_image
           op == SubmitOp(SubmitWaitSemaphore(c), SubmitSignalSemaphore(c),
                          SubmitFence(c), SubmitCommandBuffer(image_index))
       IN  /\ queue' = Append(queue, Batch(frames, op.wait, op.signal,
                                           op.fence, op.cb))
           /\ frameOps' = Append(frameOps, op)
    /\ pc' = AfterSubmit
    /\ UNCHANGED <<envVars, deviceVars, failure, live, calls, current_image, swapchainVars, commandbuffers,
                   recordVars, image_index, frames, frameSlot, signaled,
                   pendingSignal, imageState, running, presentQueue, completed,
                   handed>>

PresentRequest(frame, wait, image) ==
    [frame |-> frame, wait |-> wait, image |-> image]

\* queue_present(graphics_queue, &present_info)
QueuePresent ==
    /\ pc = "present"
    /\ LET op == PresentOp(PresentWaitSemaphore(current_image), image_index)
       IN  /\ presentQueue' = Append(presentQueue,
                                     PresentRequest(frames, op.wait, op.image))
           /\ frameOps' = Append(frameOps, op)
    /\ imageState' = [imageState EXCEPT ![image_index + 1] = "queued"]
    /\ pc' = AfterPresent
    /\ UNCHANGED <<envVars, deviceVars, failure, live, calls, current_image, swapchainVars, commandbuffers,
                   recordVars, image_index, frames, frameSlot, signaled,
                   pendingSignal, queue, running, completed, handed>>

\* current_image = (current_image + 1) % amount_of_images as usize
Advance ==
    /\ pc = "advance"
    /\ current_image' = NextImage(current_image, amount_of_images)
    /\ frames' = frames + 1
    /\ frameOps' = Append(frameOps, AdvanceOp)
    /\ pc' = AfterAdvance
    /\ UNCHANGED <<envVars, deviceVars, failure, live, calls, swapchainVars, commandbuffers, recordVars,
                   image_index, frameSlot, gpuVars>>

\* the message of the expect() on the result of each native call of the handler
ExpectMessage ==
    [acquire |-> "image aquisition trouble", wait_fence |-> "fence wainting",
     reset_fence |-> "resetting fences", submit |-> "queue submission",
     present |-> "queue presentation"]

\* where the handler would go on after each native call
AfterCall ==
    [acquire |-> AfterAcquire, wait_fence |-> AfterWait,
     reset_fence |-> AfterReset, submit |-> AfterSubmit,
     present |-> AfterPresent]

\* a handler that drops the Err and goes on with its next statement
IgnoringFailure(next) == next
\* expect() on an Err panics: the handler is left at once
AfterFailure(next) == "panicked"

\* the native call the handler is about to make returns an Err
FrameCallFails ==
    /\ pc \in DOMAIN ExpectMessage
    /\ failure = NoFailure
    /\ failure' = Panic(ExpectMessage[pc])
    /\ pc' = AfterFailure(AfterCall[pc])
    /\ UNCHANGED <<envVars, deviceVars, live, calls, current_image,
                   swapchainVars, commandbuffers, recordVars, image_index,
                   frames, frameSlot, frameOps, gpuVars>>

\* the panic leaves main: a build that unwinds drops the renderer the closure
\* owns, a build that aborts ends the process with nothing dropped
PanicLeavesMain ==
    /\ pc = "panicked"
    /\ pc' \in {"drop_wait_idle", "aborted"}
    /\ UNCHANGED <<envVars, deviceVars, failure, live, calls, current_image,
                   swapchainVars, commandbuffers, recordVars, frameVars,
                   gpuVars>>

\* ------------------------------------ graphics queue and presentation engine
\* The driver side of the calls above: batches of the one graphics queue run
\* in submission order, presentation requests are served in the order of the
\* queue_present calls, and acquire hands out only images the presentation
\* engine has released.
\* the presentation engine signals the semaphore handed to acquire
SignalAvailable ==
    /\ \E s \in pendingSignal :
        /\ signaled' = signaled \cup {s}
        /\ pendingSignal' = pendingSignal \ {s}
    /\ UNCHANGED <<envVars, deviceVars, failure, pc, live, calls, current_image, swapchainVars,
                   commandbuffers, recordVars, frameVars, imageState, queue,
                   running, presentQueue, completed, handed>>

\* the head batch starts once its wait semaphore is signaled, and unsignals it
GpuBegin ==
    /\ queue # <<>>
    /\ ~running
    /\ Head(queue).wait \in signaled
    /\ signaled' = signaled \ {Head(queue).wait}
    /\ running' = TRUE
    /\ UNCHANGED <<envVars, deviceVars, failure, pc, live, calls, current_image, swapchainVars,
                   commandbuffers, recordVars, frameVars, pendingSignal,
                   imageState, queue, presentQueue, completed, handed>>

\* the head batch finishes: its signal semaphore and its fence are signaled
GpuComplete ==
    /\ running
    /\ signaled' = (signaled \cup {Head(queue).signal, Head(queue).fence})
                      \ {NullHandle}
    /\ completed' = completed \cup {Head(queue).frame}
    /\ queue' = Tail(queue)
    /\ running' = FALSE
    /\ UNCHANGED <<envVars, deviceVars, failure, pc, live, calls, current_image, swapchainVars,
                   commandbuffers, recordVars, frameVars, pendingSignal,
                   imageState, presentQueue, handed>>

\* the oldest presentation request waits for its semaphore, then its image is
\* shown and the image shown before goes back to the free images
PresentExec ==
    /\ presentQueue # <<>>
    /\ Head(presentQueue).wait \in signaled
    /\ signaled' = signaled \ {Head(presentQueue).wait}
    /\ imageState' = [i \in 1..Len(imageState) |->
                        IF i = Head(presentQueue).image + 1 THEN "displayed"
                        ELSE IF imageState[i] = "displayed" THEN "free"
                        ELSE imageState[i]]
    /\ handed' = handed \cup {Head(presentQueue).frame}
    /\ presentQueue' = Tail(presentQueue)
    /\ UNCHANGED <<envVars, deviceVars, failure, pc, live, calls, current_image, swapchainVars,
                   commandbuffers, recordVars, frameVars, pendingSignal, queue,
                   running, completed>>

\* -------------------------------------------------- Drop for VulkanRenderer
\* WindowEvent::CloseRequested: ControlFlow::Exit, the renderer is dropped
CloseRequested ==
    /\ pc = "idle"
    /\ pc' = "drop_wait_idle"
    /\ UNCHANGED <<envVars, deviceVars, failure, live, calls, current_image, swapchainVars, commandbuffers,
                   recordVars, frameVars, gpuVars>>

\* a drop that goes on without waiting
DeviceIdleNotAwaited == TRUE
\* what device_wait_idle() waits for: the graphics queue has no work left
DeviceIdle == queue = <<>> /\ ~running

\* self.device.logical_device.device_wait_idle().expect(..)
DropWaitIdle ==
    /\ pc = "drop_wait_idle"
    /\ DeviceIdle
    /\ calls' = Append(calls, WaitIdleCall)
    /\ pc' = "drop_pools"
    /\ UNCHANGED <<envVars, deviceVars, failure, live, current_image, swapchainVars, commandbuffers,
                   recordVars, frameVars, gpuVars>>

\* a step of drop that destroys the handles of hs in order; the objects of
\* freed go away with them
CleanupStep(from, to, hs, freed) ==
    /\ pc = from
    /\ pc' = to
    /\ calls' = calls \o DestroyCalls(hs)
    /\ live' = (live \ Range(hs)) \ freed
    /\ UNCHANGED <<envVars, deviceVars, failure, current_image, swapchainVars, commandbuffers, recordVars,
                   frameVars, gpuVars>>

\* CommandPools::cleanup; destroying a pool frees its command buffers
PoolsCleanupCalls == <<CommandPoolGraphics, CommandPoolTransfer>>
PoolsCleanup ==
    CleanupStep("drop_pools", "drop_pipeline", PoolsCleanupCalls,
                Range(commandbuffers))

\* Pipeline::cleanup
PipelineCleanupCalls == <<GraphicsPipeline, PipelineLayout>>
PipelineCleanup ==
    CleanupStep("drop_pipeline", "drop_renderpass", PipelineCleanupCalls, {})

DestroyRenderPass ==
    CleanupStep("drop_renderpass", "drop_swapchain", <<RenderPass>>, {})

\* a cleanup that destroys the swapchain object before what hangs on it
SwapchainDestroyedFirst ==
    <<SwapchainKHR>> \o may_begin_drawing \o image_available
        \o rendering_finished \o framebuffers \o image_views
\* Swapchain::cleanup
SwapchainCleanupCalls ==
    may_begin_drawing \o image_available \o rendering_finished
        \o framebuffers \o image_views \o <<SwapchainKHR>>
SwapchainCleanup ==
    CleanupStep("drop_swapchain", "drop_device", SwapchainCleanupCalls, {})

\* self.device.logical_device.destroy_device(None)
DestroyDevice ==
    CleanupStep("drop_device", "drop_surfaces", <<LogicalDevice>>, {})

\* ManuallyDrop::drop(&mut self.surfaces): Drop for Surface
DropSurfaces ==
    CleanupStep("drop_surfaces", "drop_device_cleanup", <<SurfaceKHR>>, {})

\* self.device.cleanup(): Device::cleanup calls destroy_device(None) on the
\* handle destroyed two statements earlier; the driver may go on or crash
DeviceCleanupCalls == <<LogicalDevice>>
DeviceCleanup ==
    \/ CleanupStep("drop_device_cleanup", "drop_debug", DeviceCleanupCalls, {})
    \/ CleanupStep("drop_device_cleanup", "crashed", DeviceCleanupCalls, {})

\* ManuallyDrop::drop(&mut self.debug)
DropDebug ==
    CleanupStep("drop_debug", "drop_instance", <<DebugMessenger>>, {})

\* self.instance.destroy_instance(None)
DestroyInstance ==
    CleanupStep("drop_instance", "drop_fields", <<Instance>>, {})

\* after drop() returns the fields are dropped; Pipeline.allocator is the one
\* field with a destructor that releases a device object
DropFields ==
    /\ pc = "drop_fields"
    /\ calls' = Append(calls, [op |-> "drop", h |-> Allocator])
    /\ live' = live \ {Allocator}
    /\ pc' = "dropped"
    /\ UNCHANGED <<envVars, deviceVars, failure, current_image, swapchainVars, commandbuffers, recordVars,
                   frameVars, gpuVars>>

DropPcs == {"drop_wait_idle", "drop_pools", "drop_pipeline", "drop_renderpass",
            "drop_swapchain", "drop_device", "drop_surfaces",
            "drop_device_cleanup", "drop_debug", "drop_instance",
            "drop_fields", "dropped", "crashed"}

\* ----------------------------------------------------------- specification
Next ==
    \/ CreateInstance
    \/ DebugNew
    \/ SurfaceNew
    \/ DeviceInit
    \/ SwapchainInit
    \/ CreateRenderpass
    \/ CreateFramebuffer
    \/ PipelineNew
    \/ CommandPoolsInit
    \/ CreateCommandbuffers
    \/ FillCommandbuffers
    \/ StartFrame
    \/ AcquireNextImage
    \/ AcquireCrashes
    \/ WaitForFences
    \/ ResetFences
    \/ QueueSubmit
    \/ QueuePresent
    \/ Advance
    \/ FrameCallFails
    \/ PanicLeavesMain
    \/ SignalAvailable
    \/ GpuBegin
    \/ GpuComplete
    \/ PresentExec
    \/ CloseRequested
    \/ DropWaitIdle
    \/ PoolsCleanup
    \/ PipelineCleanup
    \/ DestroyRenderPass
    \/ SwapchainCleanup
    \/ DestroyDevice
    \/ DropSurfaces
    \/ DeviceCleanup
    \/ DropDebug
    \/ DestroyInstance
    \/ DropFields

Spec == Init /\ [][Next]_vars

\* the host runs on when it can, the GPU executes every submitted batch and
\* the presentation engine serves every request
Fairness ==
    /\ WF_vars(AcquireNextImage)
    /\ WF_vars(WaitForFences)
    /\ WF_vars(ResetFences)
    /\ WF_vars(QueueSubmit)
    /\ WF_vars(QueuePresent)
    /\ WF_vars(Advance)
    /\ WF_vars(SignalAvailable)
    /\ WF_vars(GpuBegin)
    /\ WF_vars(GpuComplete)
    /\ WF_vars(PresentExec)

LiveSpec == Spec /\ Fairness

\* Device::init on every list of queue families: new up to its Device::new call
DeviceSpecInit ==
    \E families \in FamilyLists : \E formats \in FormatLists :
        \E capabilities \in CapabilityInputs :
            InitWith(families, formats, capabilities)

DeviceNext ==
    \/ CreateInstance
    \/ DebugNew
    \/ SurfaceNew
    \/ DeviceInit

DeviceSpec == DeviceSpecInit /\ [][DeviceNext]_vars

\* ------------------------------------------------------------- properties
\* the VulkanRenderer value exists and no teardown has begun
RendererRuns == pc \in FramePcs \cup {"idle"}
\* the VulkanRenderer value exists (until the end of its drop)
RendererHeld == pc \in FramePcs \cup {"idle", "panicked"} \cup DropPcs

\* C1: between frames (and inside one, before the advance) current_image lies
\* in [0, amount_of_images) and equals the number of frames that reached the
\* advance modulo amount_of_images; it is 0 before the first frame.
CurrentImageIsFramesModCount ==
    RendererRuns =>
        /\ current_image \in 0..(amount_of_images - 1)
        /\ current_image = frames % amount_of_images
        /\ (frames = 0 => current_image = 0)

\* four frames on a 3-image swapchain: the cursor wrapped around to 1
CursorWrappedWitness ==
    /\ pc = "idle"
    /\ amount_of_images = 3
    /\ frames = 4
    /\ current_image = 1

\* C2: for the Swapchain of a constructed renderer, amount_of_images is the
\* length of image_views, framebuffers, image_available, rendering_finished
\* and may_begin_drawing, for every image count the driver returned.
ParallelArraysSameLength ==
    RendererHeld =>
        /\ amount_of_images \in ImageCounts
        /\ Len(image_views) = amount_of_images
        /\ Len(framebuffers) = amount_of_images
        /\ Len(image_available) = amount_of_images
        /\ Len(rendering_finished) = amount_of_images
        /\ Len(may_begin_drawing) = amount_of_images

\* a renderer whose driver returned more images than were requested
FourImageRendererWitness ==
    /\ pc = "idle"
    /\ amount_of_images = 4
    /\ Len(framebuffers) = 4

FrameOpNames == <<"acquire", "wait_for_fences", "reset_fences", "queue_submit",
                  "queue_present", "advance">>

\* C3: the host calls of a frame are a prefix of acquire, fence wait, fence
\* reset, submit, present, advance; a submit is preceded in its frame by the
\* wait and then the reset of the fence of slot current_image, the fence it
\* passes on, and a present is preceded by the submit of its frame.
FrameOpsInOrder ==
    RendererRuns =>
        /\ Len(frameOps) <= Len(FrameOpNames)
        /\ \A i \in 1..Len(frameOps) : frameOps[i].op = FrameOpNames[i]
        /\ \A i \in 1..Len(frameOps) :
            frameOps[i].op = "queue_submit" =>
                \E j \in 1..(i - 1) : \E k \in (j + 1)..(i - 1) :
                    /\ frameOps[j] = WaitOp(At(may_begin_drawing, frameSlot))
                    /\ frameOps[k] = ResetOp(At(may_begin_drawing, frameSlot))
                    /\ frameOps[i].fence = frameOps[k].fence
        /\ \A i \in 1..Len(frameOps) :
            frameOps[i].op = "queue_present" =>
                \E j \in 1..(i - 1) : frameOps[j].op = "queue_submit"
        /\ (pc = "idle" /\ frames > 0) => Len(frameOps) = Len(FrameOpNames)

\* a second frame ran through all six calls
WholeFrameWitness ==
    /\ pc = "idle"
    /\ frames >= 2
    /\ Len(frameOps) = 6

\* C4: with c the cursor at the start of the frame and a the acquired index:
\* acquire signals image_available[c]; the submit waits on image_available[c],
\* signals rendering_finished[c] and the fence may_begin_drawing[c] and
\* carries commandbuffers[a], a < the number of command buffers; the present
\* waits on rendering_finished[c] and presents image a.
FrameUsesSlotAndAcquiredImage ==
    (RendererRuns /\ frameOps # <<>>) =>
        LET c == frameSlot
            a == frameOps[1].image
        IN  /\ frameOps[1] = AcquireOp(At(image_available, c), a)
            /\ a \in 0..(Len(commandbuffers) - 1)
            /\ \A i \in 1..Len(frameOps) :
                /\ frameOps[i].op = "queue_submit" =>
                    frameOps[i] = SubmitOp(At(image_available, c),
                                           At(rendering_finished, c),
                                           At(may_begin_drawing, c),
                                           At(commandbuffers, a))
                /\ frameOps[i].op = "queue_present" =>
                    frameOps[i] = PresentOp(At(rendering_finished, c), a)

\* a presented frame whose acquired image index is not its slot
AcquiredDiffersFromSlotWitness ==
    /\ pc = "idle"
    /\ Len(frameOps) = 6
    /\ frameOps[1].image # frameSlot

\* C5: the image of frame N is handed to the presentation engine for display
\* only after the batch submitted in frame N has finished on the GPU.
PresentAfterRendering == handed \subseteq completed

\* the frame that reuses slot 0 of a 3-image swapchain was displayed
ReusedSlotDisplayedWitness ==
    /\ amount_of_images = 3
    /\ 3 \in handed

PendingOn(fence) == \E i \in 1..Len(queue) : queue[i].fence = fence

\* C6: all fences are signaled from swapchain creation to their first reset; a
\* fence is unsignaled exactly from its reset until the batch submitted with
\* it completes; the fence passed to a submit is unsignaled and no pending
\* batch carries it.
FenceProtocol ==
    /\ (pc \in {"create_renderpass", "create_framebuffer", "pipeline_new",
                "command_pools_init", "create_commandbuffers",
                "fill_commandbuffers"}
        \/ (frames = 0 /\ pc \in {"idle", "acquire", "wait_fence"}))
          => (may_begin_drawing # <<>> /\ Range(may_begin_drawing) \subseteq signaled)
    /\ RendererRuns =>
        \A i \in 0..(amount_of_images - 1) :
            At(may_begin_drawing, i) \in signaled
                <=> /\ ~PendingOn(At(may_begin_drawing, i))
                    /\ ~(pc = "submit" /\ current_image = i)
    /\ pc = "submit" =>
        /\ At(may_begin_drawing, current_image) \notin signaled
        /\ ~PendingOn(At(may_begin_drawing, current_image))

\* slot 0 is reused: its fence was reset again while later batches are pending
FenceReusedWitness ==
    /\ pc = "submit"
    /\ amount_of_images = 3
    /\ frames = 3
    /\ queue # <<>>

\* C7: with a GPU that executes every batch and a presentation engine that
\* serves every request, a started frame gets past acquire and the fence
\* wait and reaches the advance of current_image, unless one of its native
\* calls returns an error.
FrameCompletes == (pc \in FramePcs) ~> (pc = "idle" \/ failure # NoFailure)

\* a frame is blocked in acquire: every image is queued or displayed
AcquireBlockedWitness ==
    /\ pc = "acquire"
    /\ frames >= 3
    /\ FreeImages = {}

\* the calls of Drop for VulkanRenderer: the device-idle wait and the destroy
\* calls after it
TeardownCalls ==
    LET waits == {i \in 1..Len(calls) : calls[i] = WaitIdleCall}
    IN  IF waits = {} THEN <<>>
        ELSE SelectSeq(SubSeq(calls, CHOOSE i \in waits : \A j \in waits : i <= j,
                              Len(calls)),
                       LAMBDA c : c.op \in {"destroy", "wait_idle"})

\* position of a teardown call in the list device-idle-wait, command pools,
\* pipeline, render pass, swapchain, device, surface, debug, instance
TeardownRank(c) ==
    IF c.op = "wait_idle" THEN 0
    ELSE IF Kind(c.h) = "command_pool" THEN 1
    ELSE IF Kind(c.h) \in {"pipeline", "pipeline_layout"} THEN 2
    ELSE IF Kind(c.h) = "render_pass" THEN 3
    ELSE IF Kind(c.h) \in {"fence", "semaphore_available",
                           "semaphore_finished", "framebuffer", "image_view",
                           "swapchain"} THEN 4
    ELSE IF Kind(c.h) = "device" THEN 5
    ELSE IF Kind(c.h) = "surface" THEN 6
    ELSE IF Kind(c.h) = "debug_messenger" THEN 7
    ELSE 8

\* C8: teardown goes device-idle-wait, command pools, pipeline, render pass,
\* swapchain, device, surface, debug, instance: no call of a step is issued
\* after a call of a step that follows it in this list.
TeardownInListedOrder ==
    \A i \in 1..Len(TeardownCalls) : \A j \in (i + 1)..Len(TeardownCalls) :
        TeardownRank(TeardownCalls[i]) <= TeardownRank(TeardownCalls[j])

\* C9: during teardown no destroy call is issued on a handle that a destroy
\* call was already issued on.
NoHandleDestroyedTwice ==
    \A i \in 1..Len(calls) : \A j \in (i + 1)..Len(calls) :
        (calls[i].op = "destroy" /\ calls[j].op = "destroy")
            => calls[i].h # calls[j].h

DeviceDerivedKinds ==
    {"command_pool", "command_buffer", "pipeline", "pipeline_layout",
     "allocator", "render_pass", "swapchain", "image_view", "framebuffer",
     "semaphore_available", "semaphore_finished", "fence"}

DeviceDestroyed ==
    \E i \in 1..Len(calls) : calls[i] = DestroyCall(LogicalDevice)

\* C10: once the logical device is destroyed no object created from it is
\* alive: pools and command buffers, pipeline and layout, render pass, the
\* swapchain objects and synchronization primitives, and the allocator of
\* Pipeline have been destroyed or released before.
DeviceOutlivesItsObjects ==
    DeviceDestroyed => \A h \in live : Kind(h) \notin DeviceDerivedKinds

\* C11: in Drop for VulkanRenderer, from the first destroy call on, the
\* graphics queue holds no batch and none is executing, for every number of
\* frames driven before and also when the drop runs while a panic unwinds.
NoDestroyBeforeIdle ==
    (\E i \in 1..Len(TeardownCalls) : TeardownCalls[i].op = "destroy")
        => (queue = <<>> /\ ~running)

\* the window was closed after three or more frames while the last image
\* was still waiting to be presented, and the pools are already destroyed
DestroyedAfterFramesWitness ==
    /\ pc = "drop_pipeline"
    /\ frames >= 3
    /\ presentQueue # <<>>
    /\ CommandPoolGraphics \notin live

\* Swapchain::init created the swapchain and returned it
SwapchainCreated ==
    /\ \E i \in 1..Len(calls) : calls[i] = CreateCall(SwapchainKHR)
    /\ failure.call \notin {"create_image_view", "create_semaphore",
                            "create_fence"}

\* C12 as stated: on a surface with min_image_count = 2 and
\* max_image_count = 8 the swapchain has exactly 3 images.
ExactlyRequestedImages ==
    (SwapchainCreated /\ surface_capabilities = SurfaceCapabilities(2, 8))
        => amount_of_images = RequestedImages

\* C12: on a surface with min_image_count = 2 and max_image_count = 8 the
\* swapchain has at least the 3 images requested and at most the maximum of
\* the surface, and amount_of_images is the number of images the driver made.
AtLeastRequestedImages ==
    (SwapchainCreated /\ surface_capabilities = SurfaceCapabilities(2, 8))
        => /\ amount_of_images >= RequestedImages
           /\ amount_of_images <= surface_capabilities.max_image_count
           /\ amount_of_images = Len(image_views)

\* the driver made exactly the three images asked for
ThreeImagesWitness ==
    /\ pc = "create_renderpass"
    /\ surface_capabilities = SurfaceCapabilities(2, 8)
    /\ amount_of_images = 3

SwapchainKinds ==
    {"swapchain", "image_view", "semaphore_available", "semaphore_finished",
     "fence", "framebuffer"}

\* the failures initialization ends with up to the end of Device::init
DeviceInitFailures ==
    {Err("create_instance"), Err("Debug::new"), Err("Surface::new"),
     Panic("graphics_q_index.unwrap"), Err("create_device"),
     Panic("transfer_q_index.unwrap"), Crash("get_device_queue(transfer)")}

\* Swapchain::init has run
SwapchainInitDone ==
    /\ pc \notin {"create_instance", "debug_new", "surface_new", "device_init",
                  "swapchain_init"}
    /\ failure \notin DeviceInitFailures

\* C13: when the format list of the surface lacks B8G8R8A8_UNORM, swapchain
\* initialization ends initialization with the failure of the format lookup,
\* and no swapchain, image view, semaphore or fence was or is created.
MissingFormatFailsCleanly ==
    (SwapchainInitDone /\ RequiredFormat \notin Range(surface_formats))
        => /\ pc = "init_failed"
           /\ failure = Panic("find(format).unwrap")
           /\ \A i \in 1..Len(calls) : Kind(calls[i].h) \notin SwapchainKinds
           /\ \A h \in live : Kind(h) \notin SwapchainKinds
           /\ amount_of_images = 0
           /\ image_views = <<>>

\* initialization got to Swapchain::init on a surface without the format
MissingFormatWitness ==
    /\ pc = "init_failed"
    /\ RequiredFormat \notin Range(surface_formats)
    /\ LogicalDevice \in live
    /\ failure = Panic("find(format).unwrap")

FrameFailed == failure \in {Panic(ExpectMessage[p]) : p \in DOMAIN ExpectMessage}

\* C14: once acquire, the fence wait, the fence reset, the submit or the
\* present of a frame has failed, the handler makes no further call, nothing
\* more is submitted or queued for presentation, current_image and the frame
\* count stay as they are and no frame is started.
FrameFailureIsFatal ==
    [][FrameFailed =>
          /\ frameOps' = frameOps
          /\ current_image' = current_image
          /\ frames' = frames
          /\ Len(queue') <= Len(queue)
          /\ Len(presentQueue') <= Len(presentQueue)
          /\ pc' \notin FramePcs \cup {"idle"}]_vars

\* the acquire of the third frame failed; the renderer is being dropped
AcquireFailedWitness ==
    /\ failure = Panic("image aquisition trouble")
    /\ frames = 2
    /\ frameOps = <<>>
    /\ pc = "drop_pools"

\* the families with at least one queue that support graphics (1-based)
GraphicsFamilies(props) ==
    {i \in 1..Len(props) : props[i].queue_count > 0 /\ props[i].graphics}
\* the families with at least one queue that support transfer (1-based)
TransferFamilies(props) ==
    {i \in 1..Len(props) : props[i].queue_count > 0 /\ props[i].transfer}
\* those of them that do not support graphics
DedicatedTransferFamilies(props) ==
    {i \in TransferFamilies(props) : ~props[i].graphics}

\* Device::init has run
DeviceInitDone ==
    /\ pc \notin {"create_instance", "debug_new", "surface_new", "device_init"}
    /\ failure \notin {Err("create_instance"), Err("Debug::new"),
                       Err("Surface::new")}

\* C15: when no family with a queue supports graphics, Device::init ends
\* initialization at the unwrap of the graphics index, before create_device:
\* no logical device was created and no queue was requested; whenever a
\* logical device was created the graphics index is that of a graphics family
\* with a queue.
NoGraphicsFamilyNoDevice ==
    DeviceInitDone =>
        /\ GraphicsFamilies(queuefamilyproperties) = {} =>
            /\ pc = "init_failed"
            /\ failure = Panic("graphics_q_index.unwrap")
            /\ CreateCall(LogicalDevice) \notin Range(calls)
            /\ LogicalDevice \notin live
            /\ queue_infos = <<>>
        /\ CreateCall(LogicalDevice) \in Range(calls) =>
            /\ graphics_q_index # None
            /\ graphics_q_index + 1 \in GraphicsFamilies(queuefamilyproperties)

\* the only graphics family has no queue: initialization failed without device
GraphicsFamilyWithoutQueueWitness ==
    /\ pc = "init_failed"
    /\ failure = Panic("graphics_q_index.unwrap")
    /\ \E i \in 1..Len(queuefamilyproperties) :
        /\ queuefamilyproperties[i].graphics
        /\ queuefamilyproperties[i].queue_count = 0

\* C16: the transfer family found is a family with a queue that supports
\* transfer but not graphics whenever there is one; it is a graphics-capable
\* transfer family only when there is no such family; it is None only when no
\* family with a queue supports transfer.
DedicatedTransferPreferred ==
    DeviceInitDone =>
        LET props == queuefamilyproperties
        IN  /\ DedicatedTransferFamilies(props) # {} =>
                transfer_q_index + 1 \in DedicatedTransferFamilies(props)
            /\ (DedicatedTransferFamilies(props) = {}
                /\ TransferFamilies(props) # {}) =>
                transfer_q_index + 1 \in TransferFamilies(props)
            /\ TransferFamilies(props) = {} <=> transfer_q_index = None

\* the dedicated transfer family comes first and a combined family follows
DedicatedBeforeCombinedWitness ==
    /\ DeviceInitDone
    /\ queuefamilyproperties = <<TransferFamily, CombinedFamily>>
    /\ transfer_q_index = 0

\* C17 as stated: the graphics family recorded is the first family with a
\* queue that supports graphics.
FirstGraphicsFamilyRecorded ==
    (DeviceInitDone /\ GraphicsFamilies(queuefamilyproperties) # {}) =>
        /\ graphics_q_index + 1 \in GraphicsFamilies(queuefamilyproperties)
        /\ \A i \in GraphicsFamilies(queuefamilyproperties) :
            graphics_q_index + 1 <= i

\* C17: the graphics family recorded is the last family (highest index) with
\* a queue that supports graphics.
LastGraphicsFamilyRecorded ==
    (DeviceInitDone /\ GraphicsFamilies(queuefamilyproperties) # {}) =>
        /\ graphics_q_index + 1 \in GraphicsFamilies(queuefamilyproperties)
        /\ \A i \in GraphicsFamilies(queuefamilyproperties) :
            graphics_q_index + 1 >= i

\* two graphics families with queues: the second one is recorded
TwoGraphicsFamiliesWitness ==
    /\ DeviceInitDone
    /\ queuefamilyproperties = <<CombinedFamily, GraphicsOnlyFamily>>
    /\ graphics_q_index = 1

\* C18: every failing native call of Pipeline::new ends it with a typed
\* error result.
PipelineFailuresAreTyped ==
    failure.call \in {PipelineCalls[i].call : i \in 1..Len(PipelineCalls)}
        => failure.kind = "err"

SwapchainCleanupRank(h) ==
    IF Kind(h) = "fence" THEN 1
    ELSE IF Kind(h) = "semaphore_available" THEN 2
    ELSE IF Kind(h) = "semaphore_finished" THEN 3
    ELSE IF Kind(h) = "framebuffer" THEN 4
    ELSE IF Kind(h) = "image_view" THEN 5
    ELSE IF Kind(h) = "swapchain" THEN 6
    ELSE 7

SwapchainDestroys ==
    SelectSeq(TeardownCalls,
              LAMBDA c : c.op = "destroy"
                         /\ Kind(c.h) \in SwapchainKinds \cup {"device"})

\* C19: teardown destroys all fences, then all image-available semaphores,
\* then all rendering-finished semaphores, then all framebuffers, then all
\* image views, then the swapchain object, and the device after all of them;
\* once the device is destroyed none of these objects is left.
SwapchainCleanupInOrder ==
    LET d == SwapchainDestroys
    IN  /\ \A i \in 1..(Len(d) - 1) :
             SwapchainCleanupRank(d[i].h) <= SwapchainCleanupRank(d[i + 1].h)
        /\ DestroyCall(LogicalDevice) \in Range(d) =>
             /\ \A h \in live : Kind(h) \notin SwapchainKinds
             /\ Len(d) >= 5 * amount_of_images + 2

\* the swapchain of a four-image renderer has just been cleaned up
SwapchainCleanedUpWitness ==
    /\ pc = "drop_device"
    /\ amount_of_images = 4
    /\ Len(SwapchainDestroys) = 21

Creates(kind) == {i \in 1..Len(calls) :
                    calls[i].op = "create" /\ Kind(calls[i].h) = kind}
\* every position of as comes before every position of bs, and there is no
\* position in bs without one in as
AllBefore(as, bs) ==
    /\ \A i \in as : \A j \in bs : i < j
    /\ bs # {} => as # {}
Records == {i \in 1..Len(calls) : calls[i].op = "record"}

\* C20: the device is created before the swapchain, the swapchain before
\* the render pass, the render pass before the framebuffers and the pipeline,
\* the device before the command pools, the framebuffers and the pipeline
\* before any command buffer is recorded; framebuffers are created once, one
\* per image view, framebuffer i on image view i; the handler of a frame
\* runs only when every command buffer is recorded.
CreatedAfterWhatItReferences ==
    LET device == Creates("device")
        swapchain == Creates("swapchain")
        renderpass == Creates("render_pass")
        fbs == Creates("framebuffer")
        pipeline == Creates("pipeline")
        pools == Creates("command_pool")
        records == Records
    IN  /\ AllBefore(device, swapchain)
        /\ AllBefore(swapchain, renderpass)
        /\ AllBefore(renderpass, fbs)
        /\ AllBefore(renderpass, pipeline)
        /\ AllBefore(device, pools)
        /\ AllBefore(fbs, records)
        /\ AllBefore(pipeline, records)
        /\ failure # Err("create_framebuffer") =>
            Cardinality(fbs) \in {0, Len(image_views)}
        /\ \A i \in 1..Len(framebuffers) :
            /\ framebuffers[i] = Handle("framebuffer", i - 1)
            /\ attachments[i] = image_views[i]
        /\ (pc \in FramePcs \/ frames > 0 \/ frameOps # <<>> \/ queue # <<>>) =>
            /\ Cardinality(records) = amount_of_images
            /\ Cardinality(fbs) = amount_of_images
            /\ Len(recorded) = amount_of_images
            /\ \A i \in 1..amount_of_images : recorded[i] = framebuffers[i]

\* the first frame starts on a four-image renderer with everything recorded
FirstFrameAfterRecordingWitness ==
    /\ pc = "acquire"
    /\ frames = 0
    /\ amount_of_images = 4
    /\ Cardinality(Records) = 4
    /\ attachments = image_views

\* C21: a constructed renderer has one command buffer per swapchain image,
\* all allocated from the graphics pool; into command buffer i was recorded,
\* exactly once, begin recording, begin render pass on framebuffer i, bind
\* pipeline, draw of 1 vertex and 1 instance, end render pass, end recording.
OneRecordedBufferPerImage ==
    RendererHeld =>
        /\ Len(commandbuffers) = amount_of_images
        /\ Len(commands) = amount_of_images
        /\ commandbuffer_pool = CommandPoolGraphics
        /\ \A i \in 1..Len(commandbuffers) :
            /\ commandbuffers[i] = Handle("command_buffer", i - 1)
            /\ Cardinality({j \in 1..Len(calls) :
                              calls[j] = CreateCall(commandbuffers[i])}) = 1
            /\ Cardinality({j \in 1..Len(calls) :
                              calls[j] = RecordCall(commandbuffers[i])}) = 1
            /\ commands[i] =
                <<Cmd("begin_command_buffer", NullHandle, 0, 0),
                  Cmd("cmd_begin_render_pass", framebuffers[i], 0, 0),
                  Cmd("cmd_bind_pipeline", GraphicsPipeline, 0, 0),
                  Cmd("cmd_draw", NullHandle, 1, 1),
                  Cmd("cmd_end_render_pass", NullHandle, 0, 0),
                  Cmd("end_command_buffer", NullHandle, 0, 0)>>
            /\ attachments[i] = image_views[i]

\* a four-image renderer right after recording: the fourth command buffer
\* draws to the fourth framebuffer
FourBuffersRecordedWitness ==
    /\ pc = "idle"
    /\ frames = 0
    /\ Len(commands) = 4
    /\ commands[4][2].h = Handle("framebuffer", 3)

\* the renderer state a frame only reads
ReplayedState ==
    <<commandbuffers, recorded, commands, commandbuffer_pool,
      amount_of_images, image_views, framebuffers, attachments,
      image_available, rendering_finished, may_begin_drawing>>

\* C22: from the first frame on no step changes the command buffers, what is
\* recorded in them, amount_of_images or the framebuffer, image view,
\* semaphore and fence arrays, and nothing is recorded; while the renderer
\* runs the set of live objects (pipeline and render pass among them) and the
\* log of create and destroy calls stay as they are.
FrameChangesOnlyCursor ==
    [][(pc \in FramePcs \/ frames > 0 \/ frameOps # <<>>) =>
          /\ ReplayedState' = ReplayedState
          /\ Records' = Records
          /\ (pc' \in FramePcs \cup {"idle", "panicked"}) =>
                /\ live' = live
                /\ calls' = calls
                /\ {GraphicsPipeline, RenderPass} \subseteq live']_vars

\* four frames have run on a three-image renderer
FourFramesReplayedWitness ==
    /\ pc = "idle"
    /\ frames = 4
    /\ amount_of_images = 3
    /\ Len(commands) = 3
    /\ Cardinality(Records) = 3

\* call c1 was issued, and call c2 after it
IssuedBefore(c1, c2) ==
    \E i \in 1..Len(calls) : \E j \in (i + 1)..Len(calls) :
        calls[i] = c1 /\ calls[j] = c2

TransientKinds == {"shader_module", "buffer", "allocation"}

\* C23: when Pipeline::new has returned Ok the test buffer was created, got
\* memory allocated and bound, the allocation was freed and then the buffer
\* destroyed; both shader modules were created before and destroyed after
\* the creation of the graphics pipeline; each of these calls was issued
\* once; of the objects of Pipeline::new the pipeline, its layout and the
\* allocator are alive and nothing else.
TransientsReleasedInOrder ==
    pc = "command_pools_init" =>
        /\ IssuedBefore(CreateCall(Buffer), CreateCall(Allocation))
        /\ IssuedBefore(CreateCall(Allocation), [op |-> "bind", h |-> Buffer])
        /\ IssuedBefore([op |-> "bind", h |-> Buffer], DestroyCall(Allocation))
        /\ IssuedBefore(DestroyCall(Allocation), DestroyCall(Buffer))
        /\ \A m \in {VertexShaderModule, FragmentShaderModule} :
            /\ IssuedBefore(CreateCall(m), CreateCall(GraphicsPipeline))
            /\ IssuedBefore(CreateCall(GraphicsPipeline), DestroyCall(m))
        /\ \A h \in {Buffer, Allocation, VertexShaderModule,
                     FragmentShaderModule} :
            /\ Cardinality({i \in 1..Len(calls) : calls[i] = CreateCall(h)}) = 1
            /\ Cardinality({i \in 1..Len(calls) : calls[i] = DestroyCall(h)}) = 1
        /\ \A h \in live : Kind(h) \notin TransientKinds
        /\ {GraphicsPipeline, PipelineLayout, Allocator} \subseteq live

\* Pipeline::new has just returned on a four-image renderer
PipelineReturnedWitness ==
    /\ pc = "command_pools_init"
    /\ amount_of_images = 4
    /\ Allocator \in live
    /\ calls[Len(calls)] = DestroyCall(VertexShaderModule)

AcquireSemaphoreUnused ==
    pc = "acquire" =>
        LET s == At(image_available, current_image)
        IN  /\ s \notin signaled
            /\ s \notin pendingSignal
            /\ \A i \in 1..Len(queue) :
                (i > 1 \/ ~running) => queue[i].wait # s

\* C26: the batches submitted and not yet completed are never more than
\* amount_of_images, and no two of them were submitted with the same fence:
\* each slot has at most one frame in flight.
FramesInFlightBounded ==
    RendererHeld =>
        /\ Len(queue) <= amount_of_images
        /\ \A i \in 1..Len(queue) :
            /\ queue[i].fence \in Range(may_begin_drawing)
            /\ queue[i].fence \notin signaled
            /\ \A j \in (i + 1)..Len(queue) : queue[i].fence # queue[j].fence

\* as many frames in flight as there are images, after a slot was reused
AllSlotsInFlightWitness ==
    /\ Len(queue) = amount_of_images
    /\ frames >= amount_of_images

\* C27: when initialization has failed no GPU object is alive.
FailedInitLeavesNothing == pc = "init_failed" => live = {}

\* C28: every family a queue handle was fetched for and the family of every
\* command pool created is among the families a queue was requested for at
\* create_device.
QueuesOnlyOfRequestedFamilies ==
    /\ Range(fetched_queues) \subseteq Range(queue_infos)
    /\ \A pool \in {CommandPoolGraphics, CommandPoolTransfer} :
        CreateCall(pool) \in Range(calls) =>
            PoolFamily(pool) \in Range(queue_infos)

====
